---- MODULE Spec2Model ----
(***************************************************************************)
(* Model of the Istio Pilot webhook (src/webhook.go): the four xDS hook    *)
(* handlers (listeners, clusters, routes, endpoints), the listener         *)
(* classifier and the external-authorization filter insertion.             *)
(*                                                                         *)
(* Strings that the code splits (listener names, serviceNode) are          *)
(* sequences of symbols, so that strings.Split is computed and not         *)
(* assumed; every other string is a TLA+ string.                           *)
(***************************************************************************)
EXTENDS Integers, Sequences, FiniteSets, TLC

VARIABLES configOptions, pc, req, resp, history, listener, ip, ret, conns, docs

vars == <<configOptions, pc, req, resp, history, listener, ip, ret, conns, docs>>

(***************************************************************************)
(* Program constants                                                       *)
(***************************************************************************)
serviceNodeSeparator == "~"
listenerNameSeparator == "_"
AuthZFilterName == "envoy.ext_authz"
AuthZClusterName == "calico.dikastes"
DikastesSocketDir == "/var/run/dikastes"

INBOUND == 0
OUTBOUND == 1
VIRTUAL == 2

HTTP == 0
TCP == 1

\* envoy v1 names used by the code and its tests
HTTPConnectionManager == "http_connection_manager"
TCPProxyFilter == "tcp_proxy"
CORSFilter == "cors"
RouterFilter == "router"

StatusOK == 200
StatusBadRequest == 400
StatusInternalServerError == 500

(***************************************************************************)
(* Bounds of the model                                                     *)
(***************************************************************************)
MaxNameTokens == 2
MaxFilters == 2
MaxHTTPFilters == 2
MaxListeners == 2
MaxClusters == 2
MaxPasses == 2
MaxConns == 2

(***************************************************************************)
(* Strings and strings.Split                                               *)
(***************************************************************************)
Str(w) == <<w>>

RECURSIVE Join(_, _)
Join(tokens, sep) ==
    IF Len(tokens) = 0 THEN <<>>
    ELSE IF Len(tokens) = 1 THEN tokens[1]
    ELSE tokens[1] \o <<sep>> \o Join(Tail(tokens), sep)

\* strings.Split(s, sep): the substrings between the separators; a string
\* without separator (the empty string too) gives one component.
RECURSIVE Split(_, _)
Split(s, sep) ==
    LET at == {i \in 1..Len(s) : s[i] = sep}
    IN  IF at = {} THEN <<s>>
        ELSE LET i == CHOOSE j \in at : \A k \in at : j <= k
             IN  <<SubSeq(s, 1, i - 1)>> \o Split(SubSeq(s, i + 1, Len(s)), sep)

SeqsUpTo(S, n) == UNION {[1..k -> S] : k \in 0..n}

(***************************************************************************)
(* envoy v1 documents                                                      *)
(***************************************************************************)
\* A filter configuration payload (v1.NetworkFilterConfig / HTTPFilter.Config):
\* nil, an HTTPFilterConfig or an AuthzFilterConfig.
NilConfig ==
    [kind |-> "nil", Filters |-> <<>>, StatPrefix |-> "",
     GrpcCluster |-> [ClusterName |-> ""]]

HTTPFilterConfig(filters) ==
    [kind |-> "http", Filters |-> filters, StatPrefix |-> "",
     GrpcCluster |-> [ClusterName |-> ""]]

AuthzFilterConfig(statPrefix, clusterName) ==
    [kind |-> "authz", Filters |-> <<>>, StatPrefix |-> statPrefix,
     GrpcCluster |-> [ClusterName |-> clusterName]]

HTTPFilter(type, name, config) == [Type |-> type, Name |-> name, Config |-> config]

NetworkFilter(type, name, config) == [Type |-> type, Name |-> name, Config |-> config]

Listener(name, filters) == [Name |-> name, Filters |-> filters]

virtualName == Str("virtual")

(***************************************************************************)
(* Listener classification and filter insertion                            *)
(***************************************************************************)
\* "var proto Protocol": a Go int left at its zero value.
ProtocolZeroValue == 0

\* The outcome of a call that may panic.
Returned(v) == [panic |-> FALSE, value |-> v]
Panicked(v) == [panic |-> TRUE, value |-> v]

\* classifyListener: (direction, protocol) of a listener; indexing c[1] of
\* a name without separator panics (index out of range).
classifyListener(l, selfIP) ==
    IF l.Name = virtualName
    THEN Returned([direction |-> VIRTUAL, proto |-> ProtocolZeroValue])
    ELSE LET c == Split(l.Name, listenerNameSeparator)
             proto == IF c[1] = Str("http") THEN HTTP
                      ELSE IF c[1] = Str("tcp") THEN TCP
                      ELSE ProtocolZeroValue
         IN  IF Len(c) < 2
             THEN Panicked([direction |-> INBOUND, proto |-> proto])
             ELSE IF c[2] = selfIP
                  THEN Returned([direction |-> INBOUND, proto |-> proto])
                  ELSE Returned([direction |-> OUTBOUND, proto |-> proto])

authzHttp ==
    HTTPFilter("decoder", AuthZFilterName, AuthzFilterConfig("", AuthZClusterName))

authzTCP ==
    NetworkFilter("read", AuthZFilterName,
                  AuthzFilterConfig(AuthZFilterName, AuthZClusterName))

\* Mutant: the authorization filter is appended after the HTTP filters.
updateHTTPListener_Append(l) ==
    LET at == {i \in 1..Len(l.Filters) : l.Filters[i].Name = HTTPConnectionManager}
        first == CHOOSE i \in at : \A k \in at : i <= k
        httpManagerConfig == IF at = {} THEN NilConfig ELSE l.Filters[first].Config
    IN  IF httpManagerConfig.kind = "http"
        THEN Returned(
               [l EXCEPT !.Filters[first].Config.Filters =
                             httpManagerConfig.Filters \o <<authzHttp>>])
        ELSE Returned(l)

\* updateHTTPListener: the configuration of the first filter named
\* HTTPConnectionManager is looked up; when it is not nil it is asserted to
\* be an *HTTPFilterConfig (a failed assertion panics) and the authorization
\* filter is prepended to its Filters, through the pointer. Otherwise an
\* error is logged and nothing changes.
updateHTTPListener(l) ==
    LET at == {i \in 1..Len(l.Filters) : l.Filters[i].Name = HTTPConnectionManager}
        first == CHOOSE i \in at : \A k \in at : i <= k
        httpManagerConfig == IF at = {} THEN NilConfig ELSE l.Filters[first].Config
    IN  IF httpManagerConfig.kind # "nil"
        THEN IF httpManagerConfig.kind # "http"
             THEN Panicked(l)
             ELSE Returned(
                    [l EXCEPT !.Filters[first].Config.Filters =
                                  <<authzHttp>> \o httpManagerConfig.Filters])
        ELSE Returned(l)

\* Mutant: the network filter is built like the HTTP one, without stat prefix.
updateTCPListener_NoStatPrefix(l) ==
    Returned([l EXCEPT !.Filters =
                <<NetworkFilter("read", AuthZFilterName,
                                AuthzFilterConfig("", AuthZClusterName))>> \o l.Filters])

\* Mutant: a listener that already starts with the authorization filter is
\* left alone.
updateTCPListener_Deduplicated(l) ==
    IF Len(l.Filters) > 0 /\ l.Filters[1].Name = AuthZFilterName
    THEN Returned(l)
    ELSE Returned([l EXCEPT !.Filters = <<authzTCP>> \o l.Filters])

\* updateTCPListener: the authorization network filter is prepended to the
\* listener's filters.
updateTCPListener(l) ==
    Returned([l EXCEPT !.Filters = <<authzTCP>> \o l.Filters])

\* Mutant: only virtual listeners are skipped.
updateListener_NoOutboundSkip(l, selfIP) ==
    LET cl == classifyListener(l, selfIP)
    IN  IF cl.panic THEN Panicked(l)
        ELSE IF cl.value.direction = VIRTUAL THEN Returned(l)
        ELSE IF cl.value.proto = HTTP THEN updateHTTPListener(l)
        ELSE IF cl.value.proto = TCP THEN updateTCPListener(l)
        ELSE Returned(l)

\* updateListener: outbound and virtual listeners are skipped, the others
\* are updated according to their protocol.
updateListener(l, selfIP) ==
    LET cl == classifyListener(l, selfIP)
    IN  IF cl.panic THEN Panicked(l)
        ELSE IF cl.value.direction = OUTBOUND THEN Returned(l)
        ELSE IF cl.value.direction = VIRTUAL THEN Returned(l)
        ELSE IF cl.value.proto = HTTP THEN updateHTTPListener(l)
        ELSE IF cl.value.proto = TCP THEN updateTCPListener(l)
        ELSE Returned(l)

(***************************************************************************)
(* Inputs of direct calls of updateListener (as the unit tests make them)  *)
(***************************************************************************)
NameTokens == {Str("http"), Str("tcp"), Str("udp"), Str("A")}

\* "virtual", and the names of 1..MaxNameTokens tokens joined by "_"
ListenerNames ==
    {virtualName} \cup
    {Join(t, listenerNameSeparator) :
        t \in (SeqsUpTo(NameTokens, MaxNameTokens) \ {<<>>})}

SelfIPs == {Str("A"), Str("B")}

HTTPFilters == {HTTPFilter("", CORSFilter, NilConfig), HTTPFilter("", RouterFilter, NilConfig)}

HTTPFilterSeqs == SeqsUpTo(HTTPFilters, MaxHTTPFilters)

\* The filters of one listener: connection managers with the configuration
\* cfg, connection managers without configuration and TCP proxies.
NetworkFilters(cfg) ==
    {NetworkFilter("read", HTTPConnectionManager, cfg),
     NetworkFilter("read", HTTPConnectionManager, NilConfig),
     NetworkFilter("read", TCPProxyFilter, NilConfig)}

FilterChains ==
    UNION {SeqsUpTo(NetworkFilters(HTTPFilterConfig(s)), MaxFilters) : s \in HTTPFilterSeqs}

ListenerEntries == {Listener(n, f) : n \in ListenerNames, f \in FilterChains}

NoListener == Listener(<<>>, <<>>)
NoRet == [done |-> FALSE, panic |-> FALSE, value |-> NoListener]

(***************************************************************************)
(* Request and response bodies                                             *)
(***************************************************************************)
\* A top-level field of a JSON object: absent, null, an array or (a value
\* of the wrong type) a number.
Absent == [form |-> "absent", items |-> <<>>]
Null == [form |-> "null", items |-> <<>>]
Array(items) == [form |-> "array", items |-> items]
Number == [form |-> "number", items |-> <<>>]

\* Bytes that are no JSON document, and the bytes of a JSON object.
TextBody(t) == [kind |-> "text", text |-> t, listeners |-> Absent, clusters |-> Absent]
JSONBody(ls, cs) == [kind |-> "json", text |-> "", listeners |-> ls, clusters |-> cs]
EmptyBody == TextBody("")

\* A request body whose Read fails.
FailingReader == [kind |-> "unreadable", text |-> "", listeners |-> Absent, clusters |-> Absent]

\* A Go slice: nil, or its elements.
NilSlice == [nil |-> TRUE, items |-> <<>>]
Slice(items) == [nil |-> FALSE, items |-> items]

\* ioutil.ReadAll(req.Request.Body)
ReadAll(body) ==
    IF body.kind = "unreadable" THEN [err |-> TRUE, data |-> EmptyBody]
    ELSE [err |-> FALSE, data |-> body]

\* json.Unmarshal(body, &lds) and json.Unmarshal(body, &cds): only JSON
\* objects decode; the field of the document is read, every other field is
\* ignored; an absent or null field leaves the slice nil.
Unmarshal(data, field) ==
    IF data.kind # "json" THEN [err |-> TRUE, value |-> NilSlice]
    ELSE IF field.form = "number" THEN [err |-> TRUE, value |-> NilSlice]
    ELSE IF field.form = "array" THEN [err |-> FALSE, value |-> Slice(field.items)]
    ELSE [err |-> FALSE, value |-> NilSlice]

\* json.Marshal(lds), json.Marshal(cds): the one field of the document, a
\* nil slice as null. Marshalling these structs of strings and slices does
\* not fail, so err is always FALSE and the handlers' "failed to re-encode"
\* branches are never taken.
EncodeSlice(sl) == IF sl.nil THEN Null ELSE Array(sl.items)
MarshalLDS(lds) == [err |-> FALSE, data |-> JSONBody(EncodeSlice(lds), Absent)]
MarshalCDS(cds) == [err |-> FALSE, data |-> JSONBody(Absent, EncodeSlice(cds))]

\* What the handler leaves in the response: a handler that writes no status
\* is answered 200 by net/http.
Response(status, body) == [status |-> status, body |-> body]
WriteErrorString(status, msg) == Returned(Response(status, TextBody(msg)))
Write(out) == Returned(Response(StatusOK, out))
NothingWritten == Returned(Response(StatusOK, EmptyBody))

\* io.Copy(resp, req.Request.Body): the bytes read are written; the error of
\* a failed read is dropped.
ioCopy(body) ==
    IF body.kind = "unreadable" THEN NothingWritten ELSE Write(body)

\* A handler that panics writes nothing: the serving library either answers
\* 500 itself or closes the connection without a response.
NoStatus == 0
PanicResponses ==
    {Response(NoStatus, EmptyBody),
     Response(StatusInternalServerError, TextBody("panic"))}
Outcomes(out) == IF out.panic THEN PanicResponses ELSE {out.value}

(***************************************************************************)
(* The handlers                                                            *)
(***************************************************************************)
\* for _, l := range lds.Listeners { updateListener(l, ip) }
RECURSIVE UpdateAll(_, _)
UpdateAll(ls, selfIP) ==
    IF Len(ls) = 0 THEN Returned(<<>>)
    ELSE LET u == updateListener(Head(ls), selfIP)
         IN  IF u.panic THEN Panicked(ls)
             ELSE LET rest == UpdateAll(Tail(ls), selfIP)
                  IN  IF rest.panic THEN Panicked(ls)
                      ELSE Returned(<<u.value>> \o rest.value)

\* Mutant: the role is not looked at; every body is decoded and updated.
listeners_NoRoleGate(r) ==
    LET c == Split(r.serviceNode, serviceNodeSeparator)
    IN  IF Len(c) < 2 THEN Panicked(Response(NoStatus, EmptyBody))
        ELSE LET rd == ReadAll(r.body)
                 dec == Unmarshal(rd.data, rd.data.listeners)
                 upd == UpdateAll(dec.value.items, c[2])
                 enc == MarshalLDS([dec.value EXCEPT !.items = upd.value])
             IN  IF rd.err
                 THEN WriteErrorString(StatusInternalServerError, "failed to read request")
                 ELSE IF dec.err
                 THEN WriteErrorString(StatusBadRequest, "could not parse request JSON")
                 ELSE IF upd.panic THEN Panicked(Response(NoStatus, EmptyBody))
                 ELSE Write(enc.data)

\* Mutant: the address is taken from the serviceNode only after the role
\* check, so a serviceNode without address is still echoed.
listeners_RoleFirst(r) ==
    LET c == Split(r.serviceNode, serviceNodeSeparator)
        nodeType == c[1]
    IN  IF nodeType # Str("sidecar") THEN ioCopy(r.body)
        ELSE IF Len(c) < 2 THEN Panicked(Response(NoStatus, EmptyBody))
        ELSE LET rd == ReadAll(r.body)
                 dec == Unmarshal(rd.data, rd.data.listeners)
                 upd == UpdateAll(dec.value.items, c[2])
                 enc == MarshalLDS([dec.value EXCEPT !.items = upd.value])
             IN  IF rd.err
                 THEN WriteErrorString(StatusInternalServerError, "failed to read request")
                 ELSE IF dec.err
                 THEN WriteErrorString(StatusBadRequest, "could not parse request JSON")
                 ELSE IF upd.panic THEN Panicked(Response(NoStatus, EmptyBody))
                 ELSE Write(enc.data)

\* listeners handles LDS hooks and inserts the external authz filter.
listeners(r) ==
    LET c == Split(r.serviceNode, serviceNodeSeparator)
        nodeType == c[1]
    IN  IF Len(c) < 2 THEN Panicked(Response(NoStatus, EmptyBody))
        ELSE IF nodeType # Str("sidecar") THEN ioCopy(r.body)
        ELSE LET rd == ReadAll(r.body)
                 dec == Unmarshal(rd.data, rd.data.listeners)
                 upd == UpdateAll(dec.value.items, c[2])
                 enc == MarshalLDS([dec.value EXCEPT !.items = upd.value])
             IN  IF rd.err
                 THEN WriteErrorString(StatusInternalServerError, "failed to read request")
                 ELSE IF dec.err
                 THEN WriteErrorString(StatusBadRequest, "could not parse request JSON")
                 ELSE IF upd.panic THEN Panicked(Response(NoStatus, EmptyBody))
                 ELSE IF enc.err
                 THEN WriteErrorString(StatusInternalServerError, "internal error")
                 ELSE Write(enc.data)

Cluster(name) ==
    [Name |-> name, ConnectTimeoutMs |-> 0, Type |-> "", LbType |-> "",
     Features |-> "", Hosts |-> <<>>,
     CircuitBreaker |-> [MaxPendingRequests |-> 0, MaxRequests |-> 0]]

ConnectTimeoutMs == 5000
MaxPendingRequests == 10000
MaxRequests == 10000

dikastesCluster ==
    [Name |-> AuthZClusterName, ConnectTimeoutMs |-> ConnectTimeoutMs,
     Type |-> "static", LbType |-> "round_robin", Features |-> "http2",
     Hosts |-> <<"unix://" \o DikastesSocketDir \o "/dikastes.sock">>,
     CircuitBreaker |-> [MaxPendingRequests |-> MaxPendingRequests,
                         MaxRequests |-> MaxRequests]]

\* Mutant: a decode failure is only logged, like the other two failures.
clusters_DecodeErrorLogged(r) ==
    LET rd == ReadAll(r.body)
        dec == Unmarshal(rd.data, rd.data.clusters)
        cds == IF configOptions.SetCluster
               THEN Slice(dec.value.items \o <<dikastesCluster>>)
               ELSE dec.value
    IN  IF rd.err \/ dec.err THEN NothingWritten
        ELSE Write(MarshalCDS(cds).data)

\* Mutant: the dikastes cluster is not added when the document names it.
clusters_Deduplicated(r) ==
    LET rd == ReadAll(r.body)
        dec == Unmarshal(rd.data, rd.data.clusters)
        present == \E i \in 1..Len(dec.value.items) :
                      dec.value.items[i].Name = AuthZClusterName
        cds == IF configOptions.SetCluster /\ ~present
               THEN Slice(dec.value.items \o <<dikastesCluster>>)
               ELSE dec.value
    IN  IF rd.err THEN NothingWritten
        ELSE IF dec.err
        THEN WriteErrorString(StatusBadRequest, "could not parse request JSON")
        ELSE Write(MarshalCDS(cds).data)

\* clusters handles the CDS hook and inserts the dikastes cluster. The two
\* error paths that only log return without writing a response.
clusters(r) ==
    LET rd == ReadAll(r.body)
        dec == Unmarshal(rd.data, rd.data.clusters)
        cds == IF configOptions.SetCluster
               THEN Slice(dec.value.items \o <<dikastesCluster>>)
               ELSE dec.value
        enc == MarshalCDS(cds)
    IN  IF rd.err THEN NothingWritten
        ELSE IF dec.err
        THEN WriteErrorString(StatusBadRequest, "could not parse request JSON")
        ELSE IF enc.err THEN NothingWritten
        ELSE Write(enc.data)

\* Mutant: the route configuration is decoded and re-encoded like a cluster
\* list.
routes_Reencoded(r) == clusters(r)

\* routes handles the RDS hook and is a passthru.
routes(r) == ioCopy(r.body)

\* endpoints handles the EDS hook and is a passthru.
endpoints(r) == ioCopy(r.body)

(***************************************************************************)
(* Requests                                                                *)
(***************************************************************************)
\* serviceNode path parameters: the tests' "sidecar~ip~other~items", shorter
\* ones, another role, and identifiers without separator.
ServiceNodes ==
    {Join(<<Str("sidecar"), Str("A"), Str("other"), Str("items")>>, serviceNodeSeparator),
     Join(<<Str("sidecar"), Str("A")>>, serviceNodeSeparator),
     Join(<<Str("sidecar"), Str("B")>>, serviceNodeSeparator),
     Join(<<Str("ingress"), Str("A")>>, serviceNodeSeparator),
     Str("sidecar"), Str("ingress"), <<>>}

TextBodies == {TextBody("not JSON"), TextBody("testing"), EmptyBody}

DocNames ==
    {virtualName,
     Join(<<Str("http"), Str("A"), Str("80")>>, listenerNameSeparator),
     Join(<<Str("tcp"), Str("A"), Str("80")>>, listenerNameSeparator),
     Join(<<Str("http"), Str("B"), Str("80")>>, listenerNameSeparator),
     Join(<<Str("udp"), Str("A"), Str("53")>>, listenerNameSeparator),
     Str("http")}

DocChains ==
    {<<>>,
     <<NetworkFilter("read", HTTPConnectionManager,
                     HTTPFilterConfig(<<HTTPFilter("", CORSFilter, NilConfig)>>))>>,
     <<NetworkFilter("read", TCPProxyFilter, NilConfig)>>}

DocEntries == {Listener(n, f) : n \in DocNames, f \in DocChains}

ClusterEntries ==
    {Cluster("out.something.com|http"), Cluster(AuthZClusterName), dikastesCluster}

ListenerDocs == {JSONBody(Array(d), Absent) : d \in SeqsUpTo(DocEntries, MaxListeners)}

ClusterDocs == {JSONBody(Absent, Array(d)) : d \in SeqsUpTo(ClusterEntries, MaxClusters)}

\* JSON objects without the field, with a null field, with a field of the
\* wrong type, and with both fields.
OtherDocs ==
    {JSONBody(Absent, Absent), JSONBody(Null, Null), JSONBody(Number, Number),
     JSONBody(Array(<<Listener(virtualName, <<>>)>>),
              Array(<<Cluster("out.something.com|http")>>))}

ListenerBodies == ListenerDocs \cup OtherDocs \cup TextBodies \cup {FailingReader}
ClusterBodies == ClusterDocs \cup OtherDocs \cup TextBodies \cup {FailingReader}
PassthruBodies == OtherDocs \cup TextBodies \cup {FailingReader}

Request(kind, node, body) == [kind |-> kind, serviceNode |-> node, body |-> body]

NoReq == Request("none", <<>>, EmptyBody)
NoResp == Response(NoStatus, EmptyBody)

\* The connections of the server and the state of the handler that serves
\* each: the request, the bytes read, the response. overlapped records that
\* another handler was running at some moment of this handler's run.
Conns == 1..MaxConns

IdleConn ==
    [stage |-> "idle", req |-> NoReq, data |-> EmptyBody, resp |-> NoResp,
     overlapped |-> FALSE]

(***************************************************************************)
(* The server: main, then one request at a time                            *)
(***************************************************************************)
Init ==
    /\ configOptions = [SetCluster |-> FALSE]
    /\ pc = "init"
    /\ req = NoReq
    /\ resp = NoResp
    /\ history = <<>>
    /\ listener = NoListener
    /\ ip = <<>>
    /\ ret = NoRet
    /\ conns = [c \in Conns |-> IdleConn]
    /\ docs = [c \in Conns |-> NilSlice]

\* main: --sendcluster sets configOptions.SetCluster, then the server serves.
Main ==
    /\ pc = "init"
    /\ \E sendcluster \in BOOLEAN :
          configOptions' = IF sendcluster THEN [configOptions EXCEPT !.SetCluster = TRUE]
                           ELSE configOptions
    /\ pc' = "idle"
    /\ UNCHANGED <<req, resp, history, listener, ip, ret, conns, docs>>

\* POST /v1/listeners/{serviceCluster}/{serviceNode}
ListenersHandler ==
    /\ pc = "idle"
    /\ \E node \in ServiceNodes, body \in ListenerBodies :
          /\ req' = Request("listeners", node, body)
          /\ resp' \in Outcomes(listeners(req'))
    /\ pc' = "responded"
    /\ UNCHANGED <<configOptions, history, listener, ip, ret, conns, docs>>

\* POST /v1/clusters/{serviceCluster}/{serviceNode}
ClustersHandler ==
    /\ pc = "idle"
    /\ \E node \in ServiceNodes, body \in ClusterBodies :
          /\ req' = Request("clusters", node, body)
          /\ resp' \in Outcomes(clusters(req'))
    /\ pc' = "responded"
    /\ UNCHANGED <<configOptions, history, listener, ip, ret, conns, docs>>

\* POST /v1/routes/{routeConfigName}/{serviceCluster}/{serviceNode}
RoutesHandler ==
    /\ pc = "idle"
    /\ \E node \in ServiceNodes, body \in PassthruBodies :
          /\ req' = Request("routes", node, body)
          /\ resp' \in Outcomes(routes(req'))
    /\ pc' = "responded"
    /\ UNCHANGED <<configOptions, history, listener, ip, ret, conns, docs>>

\* POST /v1/registration/{serviceName}
EndpointsHandler ==
    /\ pc = "idle"
    /\ \E body \in PassthruBodies :
          /\ req' = Request("endpoints", <<>>, body)
          /\ resp' \in Outcomes(endpoints(req'))
    /\ pc' = "responded"
    /\ UNCHANGED <<configOptions, history, listener, ip, ret, conns, docs>>

\* The body of a listener-list response answered 200 comes back as the body
\* of the next listener-list request of the same serviceNode; history keeps
\* the bodies of the earlier requests of the chain.
ListenersResend ==
    /\ pc = "responded"
    /\ req.kind = "listeners"
    /\ resp.status = StatusOK
    /\ Len(history) + 1 < MaxPasses
    /\ history' = Append(history, req.body)
    /\ req' = Request("listeners", req.serviceNode, resp.body)
    /\ resp' \in Outcomes(listeners(req'))
    /\ pc' = "responded"
    /\ UNCHANGED <<configOptions, listener, ip, ret, conns, docs>>

\* The response has been sent; the server waits for the next request.
Reply ==
    /\ pc = "responded"
    /\ pc' = "idle"
    /\ req' = NoReq
    /\ resp' = NoResp
    /\ history' = <<>>
    /\ UNCHANGED <<configOptions, listener, ip, ret, conns, docs>>

Next ==
    \/ Main
    \/ ListenersHandler
    \/ ClustersHandler
    \/ RoutesHandler
    \/ EndpointsHandler
    \/ ListenersResend
    \/ Reply

Spec == Init /\ [][Next]_vars

(***************************************************************************)
(* Direct calls of updateListener on one listener                          *)
(***************************************************************************)
UnitInit ==
    /\ configOptions = [SetCluster |-> FALSE]
    /\ pc = "call"
    /\ req = NoReq
    /\ resp = NoResp
    /\ history = <<>>
    /\ listener \in ListenerEntries
    /\ ip \in SelfIPs
    /\ ret = NoRet
    /\ conns = [c \in Conns |-> IdleConn]
    /\ docs = [c \in Conns |-> NilSlice]

\* updateListener(&l, ip)
UpdateListenerCall ==
    /\ pc = "call"
    /\ LET u == updateListener(listener, ip)
       IN  ret' = [done |-> TRUE, panic |-> u.panic, value |-> u.value]
    /\ pc' = "returned"
    /\ UNCHANGED <<configOptions, req, resp, history, listener, ip, conns, docs>>

UnitNext == UpdateListenerCall

UnitSpec == UnitInit /\ [][UnitNext]_vars

(***************************************************************************)
(* The server handling several connections at once: net/http runs every    *)
(* handler on the goroutine of its connection, so the statements of        *)
(* different handlers interleave.                                          *)
(***************************************************************************)
\* Requests in flight: the tests' requests and one request for each way a
\* handler leaves.
ConcRequests ==
    LET sidecarA == Join(<<Str("sidecar"), Str("A")>>, serviceNodeSeparator)
        sidecarB == Join(<<Str("sidecar"), Str("B"), Str("other"), Str("items")>>,
                         serviceNodeSeparator)
        ingressA == Join(<<Str("ingress"), Str("A")>>, serviceNodeSeparator)
        httpB == Listener(Join(<<Str("http"), Str("B"), Str("80")>>, listenerNameSeparator),
                          <<NetworkFilter("read", HTTPConnectionManager,
                               HTTPFilterConfig(<<HTTPFilter("", CORSFilter, NilConfig)>>))>>)
        tcpA == Listener(Join(<<Str("tcp"), Str("A"), Str("80")>>, listenerNameSeparator),
                         <<NetworkFilter("read", TCPProxyFilter, NilConfig)>>)
    IN  {Request("listeners", sidecarA, JSONBody(Array(<<tcpA, httpB>>), Absent)),
         Request("listeners", sidecarB, JSONBody(Array(<<httpB>>), Absent)),
         Request("listeners", sidecarA, JSONBody(Array(<<Listener(Str("http"), <<>>)>>), Absent)),
         Request("listeners", sidecarA, TextBody("not JSON")),
         Request("listeners", sidecarB, FailingReader),
         Request("listeners", ingressA, TextBody("testing")),
         Request("listeners", Str("sidecar"), JSONBody(Array(<<tcpA>>), Absent)),
         Request("clusters", sidecarA, JSONBody(Absent, Array(<<Cluster("out.something.com|http")>>))),
         Request("clusters", sidecarB, JSONBody(Absent, Absent)),
         Request("clusters", sidecarA, TextBody("not JSON")),
         Request("clusters", ingressA, FailingReader),
         Request("routes", sidecarA, TextBody("testing")),
         Request("endpoints", <<>>, JSONBody(Null, Null))}

\* Mutant: the decoded document is one package-level variable.
DocSlot_Shared(c) == 1

\* var lds ldsResponse / var cds cdsResponse: the decoded document is a local
\* variable of the handler, one for each call.
DocSlot(c) == c

\* The handler of connection c returns: its response is complete and its
\* locals are gone.
Return(c, out) ==
    /\ \E r \in Outcomes(out) :
          conns' = [conns EXCEPT ![c].stage = "done", ![c].resp = r]
    /\ docs' = [docs EXCEPT ![DocSlot(c)] = NilSlice]

\* The connections whose handler has started and not returned.
Running == {c \in Conns : conns[c].stage \notin {"idle", "done"}}

\* The server accepts a request on connection c and routes it to a handler.
Accept(c) ==
    /\ pc = "idle"
    /\ conns[c].stage = "idle"
    /\ \E r \in ConcRequests :
          conns' = [d \in Conns |->
                      IF d = c
                      THEN [stage |-> "routed", req |-> r, data |-> EmptyBody,
                            resp |-> NoResp, overlapped |-> Running # {}]
                      ELSE IF d \in Running
                      THEN [conns[d] EXCEPT !.overlapped = TRUE]
                      ELSE conns[d]]
    /\ UNCHANGED <<configOptions, pc, req, resp, history, listener, ip, ret, docs>>

\* The handler's first statements, up to and including the read of the body.
ConnRead(c) ==
    /\ conns[c].stage = "routed"
    /\ LET r == conns[c].req
           rd == ReadAll(r.body)
           read == /\ conns' = [conns EXCEPT ![c].stage = "read", ![c].data = rd.data]
                   /\ UNCHANGED docs
       IN  CASE r.kind = "listeners" ->
                  LET s == Split(r.serviceNode, serviceNodeSeparator)
                  IN  IF Len(s) < 2 THEN Return(c, Panicked(Response(NoStatus, EmptyBody)))
                      ELSE IF s[1] # Str("sidecar") THEN Return(c, ioCopy(r.body))
                      ELSE IF rd.err
                      THEN Return(c, WriteErrorString(StatusInternalServerError,
                                                      "failed to read request"))
                      ELSE read
              [] r.kind = "clusters" ->
                  IF rd.err THEN Return(c, NothingWritten) ELSE read
              [] r.kind = "routes" -> Return(c, routes(r))
              [] r.kind = "endpoints" -> Return(c, endpoints(r))
    /\ UNCHANGED <<configOptions, pc, req, resp, history, listener, ip, ret>>

\* json.Unmarshal(body, &lds) and json.Unmarshal(body, &cds).
ConnDecode(c) ==
    /\ conns[c].stage = "read"
    /\ LET data == conns[c].data
           dec == Unmarshal(data, IF conns[c].req.kind = "listeners"
                                  THEN data.listeners ELSE data.clusters)
       IN  IF dec.err
           THEN Return(c, WriteErrorString(StatusBadRequest, "could not parse request JSON"))
           ELSE /\ docs' = [docs EXCEPT ![DocSlot(c)] = dec.value]
                /\ conns' = [conns EXCEPT ![c].stage = "decoded"]
    /\ UNCHANGED <<configOptions, pc, req, resp, history, listener, ip, ret>>

\* The loop over lds.Listeners, and the append to cds.Clusters under
\* configOptions.SetCluster.
ConnUpdate(c) ==
    /\ conns[c].stage = "decoded"
    /\ LET doc == docs[DocSlot(c)]
           s == Split(conns[c].req.serviceNode, serviceNodeSeparator)
           upd == UpdateAll(doc.items, s[2])
       IN  IF conns[c].req.kind = "listeners"
           THEN IF upd.panic THEN Return(c, Panicked(Response(NoStatus, EmptyBody)))
                ELSE /\ docs' = [docs EXCEPT ![DocSlot(c)].items = upd.value]
                     /\ conns' = [conns EXCEPT ![c].stage = "updated"]
           ELSE /\ docs' = IF configOptions.SetCluster
                           THEN [docs EXCEPT ![DocSlot(c)] =
                                    Slice(doc.items \o <<dikastesCluster>>)]
                           ELSE docs
                /\ conns' = [conns EXCEPT ![c].stage = "updated"]
    /\ UNCHANGED <<configOptions, pc, req, resp, history, listener, ip, ret>>

\* json.Marshal of the document and resp.Write of the result.
ConnWrite(c) ==
    /\ conns[c].stage = "updated"
    /\ LET doc == docs[DocSlot(c)]
           enc == IF conns[c].req.kind = "listeners" THEN MarshalLDS(doc)
                  ELSE MarshalCDS(doc)
       IN  IF enc.err
           THEN IF conns[c].req.kind = "listeners"
                THEN Return(c, WriteErrorString(StatusInternalServerError, "internal error"))
                ELSE Return(c, NothingWritten)
           ELSE Return(c, Write(enc.data))
    /\ UNCHANGED <<configOptions, pc, req, resp, history, listener, ip, ret>>

\* The client has its response; the connection serves the next request.
ConnReply(c) ==
    /\ conns[c].stage = "done"
    /\ conns' = [conns EXCEPT ![c] = IdleConn]
    /\ UNCHANGED <<configOptions, pc, req, resp, history, listener, ip, ret, docs>>

ConcNext ==
    \/ Main
    \/ \E c \in Conns :
          \/ Accept(c)
          \/ ConnRead(c)
          \/ ConnDecode(c)
          \/ ConnUpdate(c)
          \/ ConnWrite(c)
          \/ ConnReply(c)

ConcSpec == Init /\ [][ConcNext]_vars

(***************************************************************************)
(* Properties of updateListener (checked under UnitSpec)                   *)
(***************************************************************************)
Tokens(name) == Split(name, listenerNameSeparator)

\* The name has at least two tokens, the first is proto, the second is the
\* self-address of the call.
InboundNamed(l, proto, selfIP) ==
    /\ Len(Tokens(l.Name)) >= 2
    /\ Tokens(l.Name)[1] = Str(proto)
    /\ Tokens(l.Name)[2] = selfIP

HCMIndexes(l) == {i \in 1..Len(l.Filters) : l.Filters[i].Name = "http_connection_manager"}

FirstHCM(l) == CHOOSE i \in HCMIndexes(l) : \A k \in HCMIndexes(l) : i <= k

\* The connection manager the code locates carries a configuration.
HoldsHCM(l) ==
    /\ HCMIndexes(l) # {}
    /\ l.Filters[FirstHCM(l)].Config.kind = "http"

IsAuthz(f, type, statPrefix) ==
    /\ f.Type = type
    /\ f.Name = "envoy.ext_authz"
    /\ f.Config.kind = "authz"
    /\ f.Config.StatPrefix = statPrefix
    /\ f.Config.GrpcCluster.ClusterName = "calico.dikastes"

\* C1: for an entry named http_<self-address>... whose filter chain holds a
\* connection manager with its configuration, updateListener returns the
\* entry with that connection manager's HTTP filters equal to the
\* authorization filter (decoder, envoy.ext_authz, cluster calico.dikastes)
\* followed by the original ones in their order; the top-level chain keeps
\* its length and every other filter, and the name is unchanged.
C1_HTTPInboundPrepended ==
    (pc = "returned" /\ InboundNamed(listener, "http", ip) /\ HoldsHCM(listener)) =>
        LET i == FirstHCM(listener)
            old == listener.Filters[i].Config.Filters
            new == ret.value.Filters[i].Config.Filters
        IN  /\ ~ret.panic
            /\ ret.value.Name = listener.Name
            /\ Len(ret.value.Filters) = Len(listener.Filters)
            /\ \A k \in 1..Len(listener.Filters) :
                  k # i => ret.value.Filters[k] = listener.Filters[k]
            /\ ret.value.Filters[i].Name = listener.Filters[i].Name
            /\ ret.value.Filters[i].Type = listener.Filters[i].Type
            /\ Len(new) = Len(old) + 1
            /\ IsAuthz(new[1], "decoder", "")
            /\ SubSeq(new, 2, Len(new)) = old

\* A call on an inbound HTTP entry whose connection manager is not the first
\* filter and holds two different HTTP filters.
C1_Witness ==
    /\ pc = "returned"
    /\ InboundNamed(listener, "http", ip)
    /\ HoldsHCM(listener)
    /\ FirstHCM(listener) = 2
    /\ Len(listener.Filters[2].Config.Filters) = 2
    /\ listener.Filters[2].Config.Filters[1] # listener.Filters[2].Config.Filters[2]
    /\ Len(ret.value.Filters[2].Config.Filters) = 3

\* C2: for an entry named tcp_<self-address>..., updateListener returns the
\* entry with its top-level filters equal to the authorization filter (read,
\* envoy.ext_authz, stat prefix envoy.ext_authz, cluster calico.dikastes)
\* followed by the original filters in their order.
C2_TCPInboundPrepended ==
    (pc = "returned" /\ InboundNamed(listener, "tcp", ip)) =>
        /\ ~ret.panic
        /\ ret.value.Name = listener.Name
        /\ Len(ret.value.Filters) = Len(listener.Filters) + 1
        /\ IsAuthz(ret.value.Filters[1], "read", "envoy.ext_authz")
        /\ SubSeq(ret.value.Filters, 2, Len(ret.value.Filters)) = listener.Filters

\* A call on an inbound TCP entry with two different filters.
C2_Witness ==
    /\ pc = "returned"
    /\ InboundNamed(listener, "tcp", ip)
    /\ Len(listener.Filters) = 2
    /\ listener.Filters[1] # listener.Filters[2]
    /\ Len(ret.value.Filters) = 3

\* OUTBOUND: a name of at least two tokens whose second differs from the
\* self-address; VIRTUAL: the name "virtual".
OutboundOrVirtual(l, selfIP) ==
    \/ l.Name = Str("virtual")
    \/ Len(Tokens(l.Name)) >= 2 /\ Tokens(l.Name)[2] # selfIP

\* C3: updateListener returns an OUTBOUND or VIRTUAL entry as it was: name,
\* filters and HTTP filters are those of the argument.
C3_OutboundVirtualUnchanged ==
    (pc = "returned" /\ OutboundOrVirtual(listener, ip)) =>
        (~ret.panic /\ ret.value = listener)

\* A call on an outbound entry named http_... that holds a connection
\* manager with its configuration.
C3_Witness ==
    /\ pc = "returned"
    /\ listener.Name # Str("virtual")
    /\ OutboundOrVirtual(listener, ip)
    /\ Tokens(listener.Name)[1] = Str("http")
    /\ HoldsHCM(listener)
    /\ ret.value = listener

\* C9: an entry whose name (of at least two tokens) has a first token that is
\* neither "http" nor "tcp" is returned unmodified and without error, also
\* when its second token is the self-address and it holds a connection
\* manager.
C9_UnknownProtocolUnmodified ==
    (/\ pc = "returned"
     /\ Len(Tokens(listener.Name)) >= 2
     /\ Tokens(listener.Name)[1] \notin {Str("http"), Str("tcp")}) =>
        (~ret.panic /\ ret.value = listener)

(***************************************************************************)
(* Properties of the handlers (checked under Spec)                         *)
(***************************************************************************)
NodeTokens(r) == Split(r.serviceNode, "~")

\* The serviceNode names a proxy: it has a role and an address.
NamesProxy(r) == Len(NodeTokens(r)) >= 2

Role(r) == NodeTokens(r)[1]

Readable(body) == body.kind # "unreadable"

\* The bytes are no JSON object, or the field of the document has a value of
\* the wrong type.
Undecodable(body, field) == body.kind = "text" \/ field.form = "number"

\* The elements of the document's field (none for an absent or null field).
Elements(field) == IF field.form = "array" THEN field.items ELSE <<>>

Handled(kind) == pc = "responded" /\ req.kind = kind

\* C4: a listener-list request of a proxy whose role is not "sidecar" is
\* answered 200 with the bytes of its body, whatever they are (no JSON
\* included): nothing is decoded, no entry is changed.
C4_NonSidecarEchoed ==
    (/\ Handled("listeners")
     /\ NamesProxy(req)
     /\ Role(req) # Str("sidecar")
     /\ Readable(req.body)) =>
        (resp.status = 200 /\ resp.body = req.body)

\* An ingress proxy's request whose body is not JSON, answered 200.
C4_Witness ==
    /\ Handled("listeners")
    /\ NamesProxy(req)
    /\ Role(req) = Str("ingress")
    /\ req.body = TextBody("not JSON")
    /\ resp.status = 200

C6_RoutesEndpointsEchoed ==
    (/\ pc = "responded"
     /\ req.kind \in {"routes", "endpoints"}
     /\ Readable(req.body)) =>
        (resp.status = 200 /\ resp.body = req.body)

\* A route-config request of a sidecar proxy with a body that is not JSON,
\* with the augmentation flag set.
C6_Witness ==
    /\ Handled("routes")
    /\ configOptions.SetCluster
    /\ NamesProxy(req)
    /\ Role(req) = Str("sidecar")
    /\ req.body = TextBody("testing")
    /\ resp.body = TextBody("testing")

C8_ReadFailureIs500 ==
    (/\ pc = "responded"
     /\ ~Readable(req.body)
     /\ \/ req.kind = "listeners" /\ NamesProxy(req) /\ Role(req) = Str("sidecar")
        \/ req.kind = "clusters") =>
        resp.status = 500

\* The name is not "virtual" and has fewer than two tokens.
Malformed(l) == l.Name # Str("virtual") /\ Len(Tokens(l.Name)) < 2

\* C10: a sidecar listener-list request whose document holds an entry with a
\* malformed name is answered 200 with a document of as many entries, the
\* malformed ones unmodified and every other one as updateListener returns
\* it.
C10_MalformedEntrySkipped ==
    (/\ Handled("listeners")
     /\ NamesProxy(req)
     /\ Role(req) = Str("sidecar")
     /\ req.body.kind = "json"
     /\ \E i \in 1..Len(Elements(req.body.listeners)) :
           Malformed(Elements(req.body.listeners)[i])) =>
        LET old == Elements(req.body.listeners)
            new == Elements(resp.body.listeners)
        IN  /\ resp.status = 200
            /\ Len(new) = Len(old)
            /\ \A i \in 1..Len(old) :
                  new[i] = IF Malformed(old[i]) THEN old[i]
                           ELSE updateListener(old[i], NodeTokens(req)[2]).value

\* C11: a listener-list request whose serviceNode has fewer than two
\* "~"-components fails as a whole, whatever its first token: it is not
\* answered 200, the response is no document, and the request's bytes are not
\* sent back (an empty response body equals only an empty request body).
C11_MalformedNodeFails ==
    (Handled("listeners") /\ ~NamesProxy(req)) =>
        /\ resp.status # 200
        /\ resp.body.kind # "json"
        /\ (resp.body = req.body => req.body = EmptyBody)

\* A request of "ingress" (no address) with a document that holds an inbound
\* entry: neither echoed nor updated.
C11_Witness ==
    /\ Handled("listeners")
    /\ req.serviceNode = Str("ingress")
    /\ req.body.kind = "json"
    /\ Len(Elements(req.body.listeners)) = 1
    /\ InboundNamed(Elements(req.body.listeners)[1], "tcp", Str("A"))
    /\ resp.status # 200
    /\ resp.body # req.body

\* C12 (the entry alone): updateListener returns an inbound HTTP entry that
\* holds no connection manager, or whose connection manager carries no
\* configuration, as it was and without panic. Holds under UnitSpec.
C12_EntryUnmodified ==
    (pc = "returned" /\ InboundNamed(listener, "http", ip) /\ ~HoldsHCM(listener)) =>
        (~ret.panic /\ ret.value = listener)

\* C12: a sidecar listener-list request whose document holds an inbound HTTP
\* entry without (configured) connection manager is answered 200 with that
\* entry unmodified.
C12_MissingHCMRequestCompletes ==
    (/\ Handled("listeners")
     /\ NamesProxy(req)
     /\ Role(req) = Str("sidecar")
     /\ req.body.kind = "json"
     /\ \E i \in 1..Len(Elements(req.body.listeners)) :
           /\ InboundNamed(Elements(req.body.listeners)[i], "http", NodeTokens(req)[2])
           /\ ~HoldsHCM(Elements(req.body.listeners)[i])) =>
        /\ resp.status = 200
        /\ Len(Elements(resp.body.listeners)) = Len(Elements(req.body.listeners))
        /\ \A i \in 1..Len(Elements(req.body.listeners)) :
              (/\ InboundNamed(Elements(req.body.listeners)[i], "http", NodeTokens(req)[2])
               /\ ~HoldsHCM(Elements(req.body.listeners)[i])) =>
                  Elements(resp.body.listeners)[i] = Elements(req.body.listeners)[i]

\* The number of filters named envoy.ext_authz in a sequence of filters.
AuthzIn(fs) == Cardinality({i \in 1..Len(fs) : fs[i].Name = "envoy.ext_authz"})

RECURSIVE AuthzInConfigs(_)
AuthzInConfigs(fs) ==
    IF Len(fs) = 0 THEN 0
    ELSE AuthzIn(Head(fs).Config.Filters) + AuthzInConfigs(Tail(fs))

\* The authorization filters of an entry, top-level and HTTP ones.
AuthzCount(l) == AuthzIn(l.Filters) + AuthzInConfigs(l.Filters)

\* The second token of the name is the self-address.
Inbound(l, selfIP) == Len(Tokens(l.Name)) >= 2 /\ Tokens(l.Name)[2] = selfIP

\* A sidecar listener-list request answered 200.
SidecarAnswered ==
    /\ Handled("listeners")
    /\ NamesProxy(req)
    /\ Role(req) = Str("sidecar")
    /\ resp.status = 200

\* C13 as claimed: after a sidecar listener-list request every inbound entry
\* holds exactly one authorization filter more than in the request body, and
\* outbound and virtual entries are unchanged.
C13_EveryInboundEntryGainsOne ==
    SidecarAnswered =>
        LET old == Elements(req.body.listeners)
            new == Elements(resp.body.listeners)
            self == NodeTokens(req)[2]
        IN  /\ Len(new) = Len(old)
            /\ \A i \in 1..Len(old) :
                  /\ Inbound(old[i], self) => AuthzCount(new[i]) = AuthzCount(old[i]) + 1
                  /\ OutboundOrVirtual(old[i], self) => new[i] = old[i]

\* The first n filters are authorization filters and the rest is rest.
AuthzThen(fs, n, type, statPrefix, rest) ==
    /\ Len(fs) = n + Len(rest)
    /\ \A k \in 1..n : IsAuthz(fs[k], type, statPrefix)
    /\ SubSeq(fs, n + 1, Len(fs)) = rest

\* The entry new is the entry old after n passes: n authorization filters in
\* front of the filters of a TCP entry, or of the HTTP filters of the
\* connection manager of an HTTP entry; nothing else differs.
AfterPasses(old, new, n, self) ==
    IF InboundNamed(old, "tcp", self)
    THEN /\ new.Name = old.Name
         /\ AuthzThen(new.Filters, n, "read", "envoy.ext_authz", old.Filters)
    ELSE IF InboundNamed(old, "http", self) /\ HoldsHCM(old)
    THEN /\ new.Name = old.Name
         /\ Len(new.Filters) = Len(old.Filters)
         /\ \A k \in 1..Len(old.Filters) :
               IF k = FirstHCM(old)
               THEN /\ new.Filters[k].Name = old.Filters[k].Name
                    /\ new.Filters[k].Type = old.Filters[k].Type
                    /\ AuthzThen(new.Filters[k].Config.Filters, n, "decoder", "",
                                 old.Filters[k].Config.Filters)
               ELSE new.Filters[k] = old.Filters[k]
    ELSE IF InboundNamed(old, "http", self) \/ OutboundOrVirtual(old, self)
    THEN new = old
    ELSE TRUE

\* C13 as amended: in the answer to a sidecar listener-list request, every
\* inbound TCP entry and every inbound HTTP entry whose connection manager
\* carries its configuration holds exactly one authorization filter more than
\* in the request body, in front; an inbound HTTP entry without it, and every
\* outbound or virtual entry, is unchanged. When the request body is the
\* answer to an earlier request of the same serviceNode, the entry holds one
\* authorization filter per pass, in front of the filters of the first
\* request's body (two, at indices 0 and 1, after the second pass), and
\* outbound and virtual entries are those of the first request's body.
C13_OneFilterPerPass ==
    SidecarAnswered =>
        LET old == Elements(req.body.listeners)
            new == Elements(resp.body.listeners)
            first == IF Len(history) = 0 THEN old ELSE Elements(history[1].listeners)
            self == NodeTokens(req)[2]
        IN  /\ Len(new) = Len(old)
            /\ Len(first) = Len(old)
            /\ \A i \in 1..Len(old) :
                  /\ AfterPasses(old[i], new[i], 1, self)
                  /\ AfterPasses(first[i], new[i], Len(history) + 1, self)
                  /\ (InboundNamed(old[i], "tcp", self)
                      \/ (InboundNamed(old[i], "http", self) /\ HoldsHCM(old[i]))) =>
                         AuthzCount(new[i]) = AuthzCount(old[i]) + 1

\* The answer to the second pass of a document with an inbound TCP entry, an
\* inbound HTTP entry with its connection manager: two authorization filters
\* in front of each.
C13_Witness ==
    /\ SidecarAnswered
    /\ Len(history) = 1
    /\ Len(Elements(history[1].listeners)) = 2
    /\ InboundNamed(Elements(history[1].listeners)[1], "tcp", NodeTokens(req)[2])
    /\ Len(Elements(history[1].listeners)[1].Filters) = 1
    /\ InboundNamed(Elements(history[1].listeners)[2], "http", NodeTokens(req)[2])
    /\ HoldsHCM(Elements(history[1].listeners)[2])
    /\ Len(Elements(resp.body.listeners)[1].Filters) = 3
    /\ Elements(resp.body.listeners)[1].Filters[1].Name = "envoy.ext_authz"
    /\ Elements(resp.body.listeners)[1].Filters[2].Name = "envoy.ext_authz"
    /\ AuthzCount(Elements(resp.body.listeners)[2]) = 2

(***************************************************************************)
(* Properties of concurrently handled requests (checked under ConcSpec)    *)
(***************************************************************************)
\* What the handler of request r answers when it is the only request: the
\* handler as one sequential call.
Alone(r) ==
    CASE r.kind = "listeners" -> Outcomes(listeners(r))
      [] r.kind = "clusters" -> Outcomes(clusters(r))
      [] r.kind = "routes" -> Outcomes(routes(r))
      [] r.kind = "endpoints" -> Outcomes(endpoints(r))

\* A step of a handler: a step of a connection that holds a request.
HandlerStep == \E c \in Conns : conns[c].stage # "idle" /\ conns'[c] # conns[c]

\* C14: under any interleaving of concurrently handled listener, cluster,
\* route and endpoint requests, the status and body every request is answered
\* with are what its handler answers when it handles that request alone, a
\* function of its serviceNode, its body and the augmentation flag; and the
\* flag is written only at startup, before any request is accepted, never by
\* a step of a handler.
C14_ResponsesAsAlone ==
    /\ [](\A c \in Conns :
             conns[c].stage = "done" => conns[c].resp \in Alone(conns[c].req))
    /\ [][/\ configOptions' # configOptions =>
                /\ pc = "init"
                /\ \A c \in Conns : conns[c].stage = "idle"
          /\ HandlerStep => configOptions' = configOptions]_vars

\* Two handlers ran at once, with the flag set: a sidecar listener list is
\* answered with its inbound entry updated while the handler of a cluster
\* list that started before that answer holds its augmented document.
C14_Witness ==
    /\ configOptions.SetCluster
    /\ conns[1].stage = "done"
    /\ conns[1].overlapped
    /\ conns[1].req.kind = "listeners"
    /\ conns[1].resp.status = StatusOK
    /\ conns[1].resp.body # conns[1].req.body
    /\ conns[2].stage = "updated"
    /\ conns[2].overlapped
    /\ conns[2].req.kind = "clusters"
    /\ Len(docs[DocSlot(2)].items) = 2

====
